---- MODULE Spec2Model ----
(***************************************************************************)
(* Model of the cloudprober orchestration core (src/cmd/cloudprober.go):   *)
(* main, InitFromConfig, Prober.parseSurfacers and Prober.Start with its   *)
(* dispatcher goroutine, the buffered channel dataChan, the producers that *)
(* send on it, the output file pr.outf and the surfacers' Write.           *)
(*                                                                         *)
(* The sequence id is an int64 seeded from time.Now().UnixNano(); the      *)
(* seeds of the model are small naturals, far from the int64 limit, as a   *)
(* nanosecond clock is until the year 2262.                                *)
(***************************************************************************)
EXTENDS Integers, Sequences, FiniteSets, TLC

\* ------------------------------------------------------------------ bounds
BusCap == 2             \* capacity of dataChan (1000 in the source, scaled)
MaxRecords == 3         \* records made in one run, by all the producers
MaxSinkFail == 1        \* writes to the output file that fail in one run

\* The probe and surfacer specifications of the configuration.
ProbeNames == {"p1", "p2"}
SurfacerIds == {1, 2}
NumSurfacers == Cardinality(SurfacerIds)
Seeds == {100, 200}     \* values of time.Now().UnixNano() at loop start

Producers == {"sysvars", "servers"} \cup ProbeNames
Tasks == {"dispatcher", "rtc"} \cup Producers

NoRecord == [src |-> "none", n |-> 0]

VARIABLES
  cfg,          \* the configuration text and the environment of the run
  ipc,          \* position of main / InitFromConfig
  pr,           \* the Prober being built (pr := &Prober{})
  ret,          \* what InitFromConfig returned: "none", "ok" or "err"
  fileCreated,  \* os.Create has created the output file
  alive,        \* the process has neither exited nor died of a panic
  glogged,      \* what has been logged through glog
  spc,          \* position of the caller inside Prober.Start
  toStart,      \* probes the range loop of Start has not reached yet
  started,      \* how many times each task has been started with go
  chanOf,       \* the channel each producer was handed
  dataChan,     \* buffer of the channel made in Start
  sendq,        \* producers suspended in a send on the full channel
  prod,         \* each producer: its position and how many records it made
  ctxDone,      \* the context given to Start has been cancelled
  dpc,          \* position of the dispatcher goroutine
  id,           \* its local id
  em,           \* its local em
  cur,          \* index of the range loop over pr.surfacers
  outLines,     \* lines that reached pr.outf
  sinkFails,    \* number of Fprintf calls that failed
  calls,        \* per surfacer, the records its Write was called with
  stuckIn,      \* surfacers whose Write has been entered and never returns
  panicked,     \* surfacers whose Write has panicked
  recvd         \* records the dispatcher received, with id and write result

initVars == <<cfg, ipc, pr, ret, fileCreated>>
startVars == <<spc, toStart, started, chanOf>>
chanVars == <<dataChan, sendq, prod>>
dispVars == <<dpc, id, em, cur, outLines, sinkFails, calls, stuckIn, panicked,
             recvd>>
vars == <<cfg, ipc, pr, ret, fileCreated, alive, glogged, spc, toStart,
          started, chanOf, dataChan, sendq, prod, ctxDone, dpc, id, em, cur,
          outLines, sinkFails, calls, stuckIn, panicked, recvd>>

\* ----------------------------------------------------------- configuration
\* A configuration together with the environment it is loaded in: whether
\* logger.New, config.Parse, os.Create, probes.Init, surfacers.New and
\* rtcreporter.New succeed on it.
Configs ==
  [loggerOk : BOOLEAN,
   parseOk : BOOLEAN,
   outputFile : BOOLEAN,
   createOk : BOOLEAN,
   probeOk : [ProbeNames -> BOOLEAN],
   surfacerOk : [SurfacerIds -> BOOLEAN],
   rtc : {"none", "ok", "badlogger", "badnew"}]

\* The configurations that InitFromConfig accepts.
Valid(c) ==
  /\ c.loggerOk
  /\ c.parseOk
  /\ c.outputFile => c.createOk
  /\ \A p \in ProbeNames : c.probeOk[p]
  /\ \A s \in SurfacerIds : c.surfacerOk[s]
  /\ c.rtc \in {"none", "ok"}

EmptyProber ==
  [c |-> FALSE, outf |-> "nil", Probes |-> {}, surfacers |-> <<>>,
   rtcReporter |-> FALSE]

Init ==
  /\ cfg \in Configs
  /\ cfg.createOk \/ cfg.outputFile     \* createOk only matters with a path
  /\ cfg.outputFile <=> cfg.rtc # "none" \* two shapes: file and reporter, or neither
  /\ ipc = "newLogger"
  /\ pr = EmptyProber
  /\ ret = "none"
  /\ fileCreated = FALSE
  /\ alive = TRUE
  /\ glogged = {}
  /\ spc = "idle"
  /\ toStart = {}
  /\ started = [t \in Tasks |-> 0]
  /\ chanOf = [p \in Producers |-> "nil"]
  /\ dataChan = <<>>
  /\ sendq = <<>>
  /\ prod = [p \in Producers |-> [pc |-> "off", n |-> 0]]
  /\ ctxDone = FALSE
  /\ dpc = "none"
  /\ id = 0
  /\ em = NoRecord
  /\ cur = 0
  /\ outLines = <<>>
  /\ sinkFails = 0
  /\ calls = [s \in SurfacerIds |-> <<>>]
  /\ stuckIn = {}
  /\ panicked = {}
  /\ recvd = <<>>

\* ---------------------------------------------------------- InitFromConfig
\* Faulty variant of OnErr: the error is not looked at.
OnErrMutant(ok, next) == next
\* `if err != nil { return nil, err }`: where InitFromConfig goes after a
\* step that succeeded (ok) or failed.
OnErr(ok, next) == IF ok THEN next ELSE "returnErr"

\* l, err := pr.newLogger(sysvarsModuleName)
NewSysvarsLogger ==
  /\ alive /\ ipc = "newLogger"
  /\ ipc' = OnErr(cfg.loggerOk, "sysvarsInit")
  /\ UNCHANGED <<cfg, pr, ret, fileCreated, alive, glogged, ctxDone>>
  /\ UNCHANGED <<startVars, chanVars, dispVars>>

\* sysvars.Init(l, nil)
SysvarsInit ==
  /\ alive /\ ipc = "sysvarsInit"
  /\ ipc' = "parse"
  /\ UNCHANGED <<cfg, pr, ret, fileCreated, alive, glogged, ctxDone>>
  /\ UNCHANGED <<startVars, chanVars, dispVars>>

\* pr.c, err = config.Parse(configFile, sysvars.Vars())
ConfigParse ==
  /\ alive /\ ipc = "parse"
  /\ ipc' = OnErr(cfg.parseOk, "output")
  /\ pr' = [pr EXCEPT !.c = cfg.parseOk]
  /\ UNCHANGED <<cfg, ret, fileCreated, alive, glogged, ctxDone>>
  /\ UNCHANGED <<startVars, chanVars, dispVars>>

\* pr.outf = os.Stdout, or os.Create(pr.c.GetOutputFile())
SetUpOutput ==
  /\ alive /\ ipc = "output"
  /\ IF cfg.outputFile
       THEN /\ ipc' = OnErr(cfg.createOk, "probes")
            /\ fileCreated' = cfg.createOk
            /\ pr' = [pr EXCEPT !.outf = IF cfg.createOk THEN "file" ELSE "nil"]
       ELSE /\ ipc' = "probes"
            /\ fileCreated' = fileCreated
            /\ pr' = [pr EXCEPT !.outf = "stdout"]
  /\ UNCHANGED <<cfg, ret, alive, glogged, ctxDone>>
  /\ UNCHANGED <<startVars, chanVars, dispVars>>

\* pr.Probes = probes.Init(...): the call has no error result.
ProbesInit ==
  /\ alive /\ ipc = "probes"
  /\ \A p \in ProbeNames : cfg.probeOk[p]
  /\ pr' = [pr EXCEPT !.Probes = ProbeNames]
  /\ ipc' = "surfacers"
  /\ UNCHANGED <<cfg, ret, fileCreated, alive, glogged, ctxDone>>
  /\ UNCHANGED <<startVars, chanVars, dispVars>>

\* probes.Init on a probe specification it cannot build: it has no error to
\* return, the construction failure aborts the initialization inside it.
ProbesInitAbort ==
  /\ alive /\ ipc = "probes"
  /\ \E p \in ProbeNames : ~cfg.probeOk[p]
  /\ alive' = FALSE
  /\ ipc' = "aborted"
  /\ glogged' = glogged \cup {"probes.Init"}
  /\ UNCHANGED <<cfg, pr, ret, fileCreated, ctxDone>>
  /\ UNCHANGED <<startVars, chanVars, dispVars>>

\* Faulty variant of Register: the new surfacer is put in front.
RegisterMutant(ss, s) == <<s>> \o ss
\* pr.surfacers = append(pr.surfacers, s)
Register(ss, s) == Append(ss, s)

\* One iteration of the loop of parseSurfacers, or its `return nil`.
parseSurfacers ==
  /\ alive /\ ipc = "surfacers"
  /\ LET k == Len(pr.surfacers) + 1 IN
       IF k > NumSurfacers
         THEN /\ ipc' = "rtc"
              /\ pr' = pr
         ELSE /\ ipc' = OnErr(cfg.surfacerOk[k], "surfacers")
              /\ pr' = IF cfg.surfacerOk[k]
                         THEN [pr EXCEPT !.surfacers = Register(@, k)]
                         ELSE pr
  /\ UNCHANGED <<cfg, ret, fileCreated, alive, glogged, ctxDone>>
  /\ UNCHANGED <<startVars, chanVars, dispVars>>

\* if opts := pr.c.GetRtcReportOptions(); opts != nil { ... }
RtcReporterInit ==
  /\ alive /\ ipc = "rtc"
  /\ ipc' = OnErr(cfg.rtc \in {"none", "ok"}, "returnOk")
  /\ pr' = [pr EXCEPT !.rtcReporter = (cfg.rtc = "ok")]
  /\ UNCHANGED <<cfg, ret, fileCreated, alive, glogged, ctxDone>>
  /\ UNCHANGED <<startVars, chanVars, dispVars>>

\* return nil, err
ReturnErr ==
  /\ alive /\ ipc = "returnErr"
  /\ ret' = "err"
  /\ pr' = EmptyProber
  /\ ipc' = "main"
  /\ UNCHANGED <<cfg, fileCreated, alive, glogged, ctxDone>>
  /\ UNCHANGED <<startVars, chanVars, dispVars>>

\* Faulty variant of GoInInit: the reporter is run where it is built.
GoInInitMutant == {"rtc"}
\* The tasks InitFromConfig starts with a go statement: its body has none,
\* all the go statements are in Start.
GoInInit == {}

\* return pr, nil
ReturnOk ==
  /\ alive /\ ipc = "returnOk"
  /\ ret' = "ok"
  /\ ipc' = "main"
  /\ started' = [t \in Tasks |->
                   IF t \in GoInInit THEN started[t] + 1 ELSE started[t]]
  /\ UNCHANGED <<cfg, pr, fileCreated, alive, glogged, ctxDone>>
  /\ UNCHANGED <<spc, toStart, chanOf, chanVars, dispVars>>

\* main: if err != nil { glog.Exitf(...) }
MainExit ==
  /\ alive /\ ipc = "main" /\ ret = "err"
  /\ glogged' = glogged \cup {"Error initializing cloudprober"}
  /\ alive' = FALSE
  /\ ipc' = "exited"
  /\ UNCHANGED <<cfg, pr, ret, fileCreated, ctxDone>>
  /\ UNCHANGED <<startVars, chanVars, dispVars>>

InitNext ==
  \/ NewSysvarsLogger
  \/ SysvarsInit
  \/ ConfigParse
  \/ SetUpOutput
  \/ ProbesInit
  \/ ProbesInitAbort
  \/ parseSurfacers
  \/ RtcReporterInit
  \/ ReturnErr
  \/ ReturnOk
  \/ MainExit

\* ------------------------------------------------------------ Prober.Start
RECURSIVE SumN(_, _)
SumN(f, S) == IF S = {} THEN 0
              ELSE LET x == CHOOSE y \in S : TRUE IN f[x].n + SumN(f, S \ {x})

\* Records made so far by all the producers.
Emitted == SumN(prod, Producers)

\* Faulty variant of RangeProbes: the loop misses one probe.
RangeProbesMutant(P) == IF P = {} THEN P ELSE P \ {CHOOSE p \in P : TRUE}
\* The keys the loop `for _, p := range pr.Probes` visits.
RangeProbes(P) == P

\* Faulty variant of WaitForever: Start returns after the loop.
WaitForeverMutant == "returned"
\* Where Start is after the loop over the probes: `select {}`.
WaitForever == "select"

\* pr.Start(ctx) is called by main on the Prober InitFromConfig returned;
\* dataChan := make(chan ..., 1000) and `go func() {...}()`: the dispatcher.
Start ==
  /\ alive /\ ipc = "main" /\ ret = "ok" /\ spc = "idle"
  /\ ipc' = "inStart"
  /\ dataChan' = <<>>
  /\ sendq' = <<>>
  /\ started' = [started EXCEPT !["dispatcher"] = @ + 1]
  /\ dpc' = "seed"
  /\ spc' = "sysvars"
  /\ UNCHANGED <<cfg, pr, ret, fileCreated, alive, glogged, ctxDone>>
  /\ UNCHANGED <<toStart, chanOf, prod>>
  /\ UNCHANGED <<id, em, cur, outLines, sinkFails, calls, stuckIn, panicked,
                 recvd>>

\* go sysvars.Run(ctx, dataChan, ...)
StartSysvars ==
  /\ alive /\ spc = "sysvars"
  /\ started' = [started EXCEPT !["sysvars"] = @ + 1]
  /\ chanOf' = [chanOf EXCEPT !["sysvars"] = "dataChan"]
  /\ prod' = [prod EXCEPT !["sysvars"].pc = "run"]
  /\ spc' = "servers"
  /\ UNCHANGED <<initVars, alive, glogged, ctxDone, toStart, dataChan, sendq>>
  /\ UNCHANGED dispVars

\* servers.Run(ctx, pr.c.GetServer(), dataChan): starts the listeners, which
\* send on dataChan, and returns.
RunServers ==
  /\ alive /\ spc = "servers"
  /\ started' = [started EXCEPT !["servers"] = @ + 1]
  /\ chanOf' = [chanOf EXCEPT !["servers"] = "dataChan"]
  /\ prod' = [prod EXCEPT !["servers"].pc = "run"]
  /\ spc' = "rtc"
  /\ UNCHANGED <<initVars, alive, glogged, ctxDone, toStart, dataChan, sendq>>
  /\ UNCHANGED dispVars

\* if pr.rtcReporter != nil { go pr.rtcReporter.Run(ctx) }
StartRtcReporter ==
  /\ alive /\ spc = "rtc"
  /\ started' = IF pr.rtcReporter
                  THEN [started EXCEPT !["rtc"] = @ + 1] ELSE started
  /\ toStart' = RangeProbes(pr.Probes)
  /\ spc' = "probes"
  /\ UNCHANGED <<initVars, alive, glogged, ctxDone, chanOf, chanVars>>
  /\ UNCHANGED dispVars

\* for _, p := range pr.Probes { go p.Run(ctx, dataChan) }, one iteration
\* (a map is ranged over in any order), or the `select {}` after the loop.
StartProbes ==
  /\ alive /\ spc = "probes"
  /\ IF toStart = {}
       THEN /\ spc' = WaitForever
            /\ UNCHANGED <<toStart, started, chanOf, prod>>
       ELSE \E p \in toStart :
              /\ toStart' = toStart \ {p}
              /\ started' = [started EXCEPT ![p] = @ + 1]
              /\ chanOf' = [chanOf EXCEPT ![p] = "dataChan"]
              /\ prod' = [prod EXCEPT ![p].pc = "run"]
              /\ spc' = spc
  /\ UNCHANGED <<initVars, alive, glogged, ctxDone, dataChan, sendq>>
  /\ UNCHANGED dispVars

\* The caller of Start cancels the context it passed.
CancelCtx ==
  /\ alive /\ spc # "idle" /\ ~ctxDone
  /\ ctxDone' = TRUE
  /\ UNCHANGED <<initVars, alive, glogged, startVars, chanVars, dispVars>>

\* ------------------------------------------------------------ the channel
\* Faulty variant of ChanSend: a send on the full buffer overwrites a record.
ChanSendMutant(buf, q, p, r) ==
  IF Len(buf) < BusCap
    THEN [buf |-> Append(buf, r), q |-> q]
    ELSE [buf |-> Append(SubSeq(buf, 1, Len(buf) - 1), r), q |-> q]
\* Faulty variant of ChanSend: the buffer takes a record whatever it holds.
ChanSendUnboundedMutant(buf, q, p, r) == [buf |-> Append(buf, r), q |-> q]
\* dataChan <- r by producer p: r enters the buffer, or, the buffer being
\* full, p is queued with r and suspends.
ChanSend(buf, q, p, r) ==
  IF Len(buf) < BusCap
    THEN [buf |-> Append(buf, r), q |-> q]
    ELSE [buf |-> buf, q |-> Append(q, [p |-> p, r |-> r])]

\* Faulty variant of RecvIndex: the newest record is taken first.
RecvIndexMutant(buf) == Len(buf)
\* Where the next record is taken from in the buffer.
RecvIndex(buf) == 1

\* <-dataChan on a non-empty buffer: the oldest record leaves, and the
\* record of the first suspended sender, if any, enters the buffer.
ChanRecv(buf, q) ==
  LET i == RecvIndex(buf)
      rest == SubSeq(buf, 1, i - 1) \o SubSeq(buf, i + 1, Len(buf)) IN
  [r |-> buf[i],
   buf |-> IF q = <<>> THEN rest ELSE Append(rest, Head(q).r),
   q |-> IF q = <<>> THEN q ELSE Tail(q),
   woken |-> IF q = <<>> THEN {} ELSE {Head(q).p}]

\* A running producer makes its next record and sends it on its channel. A
\* producer that has stopped, as one whose context has ended may, is one that
\* takes this step no more.
ProducerSend(p) ==
  /\ alive /\ prod[p].pc = "run" /\ chanOf[p] = "dataChan"
  /\ Emitted < MaxRecords
  /\ LET r == [src |-> p, n |-> prod[p].n + 1]
         c == ChanSend(dataChan, sendq, p, r) IN
       /\ dataChan' = c.buf
       /\ sendq' = c.q
       /\ prod' = [prod EXCEPT ![p] =
                     [pc |-> IF \E i \in 1..Len(c.q) : c.q[i].p = p
                               THEN "suspended" ELSE "run",
                      n |-> r.n]]
  /\ UNCHANGED <<initVars, alive, glogged, ctxDone, startVars, dispVars>>

\* --------------------------------------------------------- the dispatcher
\* id := time.Now().UnixNano()
DispatcherSeed ==
  /\ alive /\ dpc = "seed"
  /\ id' \in Seeds
  /\ dpc' = "recv"
  /\ UNCHANGED <<initVars, alive, glogged, ctxDone, startVars, chanVars>>
  /\ UNCHANGED <<em, cur, outLines, sinkFails, calls, stuckIn, panicked, recvd>>

\* Faulty variant of CanReceive: the receive is given up once ctx is done.
CanReceiveMutant == dataChan # <<>> /\ ~ctxDone
\* When the receive `em = <-dataChan` goes through: it is a plain receive,
\* not a select with ctx.Done(), and waits for a record only.
CanReceive == dataChan # <<>>

\* em = <-dataChan
DispatcherReceive ==
  /\ alive /\ dpc = "recv" /\ CanReceive
  /\ LET c == ChanRecv(dataChan, sendq) IN
       /\ em' = c.r
       /\ dataChan' = c.buf
       /\ sendq' = c.q
       /\ prod' = [p \in Producers |->
                     IF p \in c.woken THEN [prod[p] EXCEPT !.pc = "run"]
                     ELSE prod[p]]
  /\ dpc' = "print"
  /\ UNCHANGED <<initVars, alive, glogged, ctxDone, startVars>>
  /\ UNCHANGED <<id, cur, outLines, sinkFails, calls, stuckIn, panicked, recvd>>

\* Faulty variant of NextId: the id is not incremented.
NextIdMutant(i) == i
\* id++
NextId(i) == i + 1

\* Faulty variant of LoopAt: the range loop is left after its first pass.
LoopAtMutant(k) == IF k > 1 THEN "recv" ELSE "fanout"
\* The dispatcher's position when the range loop over pr.surfacers is at k.
LoopAt(k) == IF k > Len(pr.surfacers) THEN "recv" ELSE "fanout"

\* Faulty variant of IdAfterPrint: the id counts the lines written.
IdAfterPrintMutant(i, ok) == IF ok THEN NextId(i) ELSE i
\* The id after the Fprintf that succeeded (ok) or failed: its result is not
\* looked at, `id++` is the next statement either way.
IdAfterPrint(i, ok) == NextId(i)

\* Faulty variant of SinkWrite: every write starts again at offset 0.
SinkWriteMutant(f, line) == <<line>>
\* A successful write of one line to pr.outf: the file, written by this one
\* call only, grows by the whole line at its end.
SinkWrite(f, line) == Append(f, line)

\* s = em.String(); fmt.Fprintf(pr.outf, "%s %d %s\n", prefix, id, s); id++
\* The write reaches the file or fails; the result of Fprintf is dropped.
DispatcherPrint ==
  /\ alive /\ dpc = "print"
  /\ \E ok \in IF sinkFails < MaxSinkFail THEN BOOLEAN ELSE {TRUE} :
       /\ outLines' = IF ok THEN SinkWrite(outLines, [id |-> id, rec |-> em])
                      ELSE outLines
       /\ sinkFails' = IF ok THEN sinkFails ELSE sinkFails + 1
       /\ recvd' = Append(recvd, [rec |-> em, id |-> id, wrote |-> ok])
       /\ id' = IdAfterPrint(id, ok)
  /\ cur' = 1
  /\ dpc' = LoopAt(1)
  /\ UNCHANGED <<initVars, alive, glogged, ctxDone, startVars, chanVars>>
  /\ UNCHANGED <<em, calls, stuckIn, panicked>>

\* Faulty variant of NextSurfacer: the loop passes over a surfacer.
NextSurfacerMutant(k) == k + 2
\* The index of the range loop over pr.surfacers after the one at k.
NextSurfacer(k) == k + 1

\* Faulty variant of AfterWrite: the loop goes on without waiting for Write.
AfterWriteMutant(out, next) == next
\* Where the dispatcher is after calling Write with outcome out: Write is an
\* ordinary call of the dispatcher goroutine, so the loop goes on to `next`
\* only when it returns; a Write that never returns keeps it inside.
AfterWrite(out, next) == IF out = "return" THEN next ELSE "inWrite"

\* s.Write(context.Background(), em) for the surfacer at cur: it returns, it
\* panics (nothing recovers, the runtime ends the process) or never returns.
DispatcherWrite ==
  /\ alive /\ dpc = "fanout"
  /\ LET s == pr.surfacers[cur] IN
     \E out \in {"return", "panic", "block"} :
       /\ calls' = [calls EXCEPT ![s] = Append(@, em)]
       /\ stuckIn' = IF out = "block" THEN stuckIn \cup {s} ELSE stuckIn
       /\ panicked' = IF out = "panic" THEN panicked \cup {s} ELSE panicked
       /\ alive' = (out # "panic")
       /\ cur' = IF out = "return" THEN NextSurfacer(cur) ELSE cur
       /\ dpc' = AfterWrite(out, LoopAt(NextSurfacer(cur)))
  /\ UNCHANGED <<initVars, glogged, ctxDone, startVars, chanVars>>
  /\ UNCHANGED <<id, em, outLines, sinkFails, recvd>>

StartNext ==
  \/ Start
  \/ StartSysvars
  \/ RunServers
  \/ StartRtcReporter
  \/ StartProbes
  \/ CancelCtx

ProducerNext ==
  \/ \E p \in Producers : ProducerSend(p)

DispatcherNext ==
  \/ DispatcherSeed
  \/ DispatcherReceive
  \/ DispatcherPrint
  \/ DispatcherWrite

Next == InitNext \/ StartNext \/ ProducerNext \/ DispatcherNext

Spec == Init /\ [][Next]_vars

\* ------------------------------------------------------------- properties
RecOf(seq) == [i \in 1..Len(seq) |-> seq[i].rec]
\* r is in seq exactly once.
Once(seq, r) ==
  \E i \in 1..Len(seq) :
    seq[i] = r /\ \A j \in 1..Len(seq) : seq[j] = r => j = i

\* Position in recvd of the record whose line is the i-th of outLines.
PosOf(i) ==
  CHOOSE k \in 1..Len(recvd) :
    /\ recvd[k].wrote
    /\ Cardinality({j \in 1..k : recvd[j].wrote}) = i

\* C1, as stated: the ids of the lines at the output sink go up by exactly
\* 1 from one line to the next, without gaps.
C1_GapFree ==
  \A i \in 1..(Len(outLines) - 1) : outLines[i + 1].id = outLines[i].id + 1

C1_LinesIncrease ==
  \A i \in 1..(Len(outLines) - 1) :
    /\ outLines[i + 1].id > outLines[i].id
    /\ outLines[i + 1].id - outLines[i].id = PosOf(i + 1) - PosOf(i)

\* C1, amended: the ids of the lines at the output sink are strictly
\* increasing, and from one line to the next the id goes up by 1 plus the
\* number of records received between the two whose write failed; once
\* seeded, id is never reset or decreased: it only goes up by 1 per record.
C1_SequenceIds ==
  /\ []C1_LinesIncrease
  /\ [][dpc # "seed" => (id' = id \/ (id' = id + 1 /\ dpc = "print"))]_vars

\* Lines of several producers at the sink, with a failed write in between.
C1_Witness ==
  /\ Len(outLines) >= 2
  /\ \E i \in 1..(Len(outLines) - 1) :
       /\ outLines[i + 1].id = outLines[i].id + 2
       /\ outLines[i + 1].rec.src # outLines[i].rec.src

\* The records of one producer are in the order it made them.
InSendOrder(seq) ==
  \A i, j \in 1..Len(seq) :
    (i < j /\ seq[i].src = seq[j].src) => seq[i].n < seq[j].n

\* C2: the lines at the output sink, and the Write calls of every surfacer,
\* have the records of any one producer in the order the producer sent them.
C2_ProducerOrder ==
  /\ InSendOrder(RecOf(outLines))
  /\ \A s \in SurfacerIds : InSendOrder(calls[s])

\* Two records of one producer and a record of another have gone through.
C2_Witness ==
  \E i, j, k \in 1..Len(outLines) :
    /\ i < j
    /\ outLines[i].rec.src = outLines[j].rec.src
    /\ outLines[k].rec.src # outLines[i].rec.src
    /\ \A s \in SurfacerIds :
         Once(calls[s], outLines[i].rec)
         /\ Once(calls[s], outLines[j].rec)

\* The index in pr.surfacers of surfacer s.
IndexOf(s) == CHOOSE j \in 1..Len(pr.surfacers) : pr.surfacers[j] = s
Registered == {pr.surfacers[j] : j \in 1..Len(pr.surfacers)}

\* C3: the records the dispatcher received are all distinct, and the Write
\* calls of every registered surfacer are exactly these records, once each:
\* all of them for a surfacer the loop has passed or when the loop is over,
\* all but the record in hand for a surfacer the loop has not reached.
C3_FanOutOnce ==
  LET R == RecOf(recvd)
      over == dpc \in {"recv", "print"} IN
  /\ \A i, j \in 1..Len(R) : R[i] = R[j] => i = j
  /\ \A j \in 1..Len(pr.surfacers) :
       calls[pr.surfacers[j]] =
         IF over \/ j < cur \/ (dpc = "inWrite" /\ j = cur)
           THEN R ELSE SubSeq(R, 1, Len(R) - 1)
  /\ \A s \in SurfacerIds \ Registered : calls[s] = <<>>

\* Two records have been fanned out to all the registered surfacers.
C3_Witness ==
  /\ dpc = "recv"
  /\ Len(recvd) >= 2
  /\ Len(pr.surfacers) >= 2
  /\ \A s \in Registered : Len(calls[s]) = Len(recvd)

OfProd(seq, p) == SelectSeq(seq, LAMBDA r : r.src = p)
InHand == IF dpc = "print" THEN <<em>> ELSE <<>>
Queued == [i \in 1..Len(sendq) |-> sendq[i].r]
Made(p) == [i \in 1..prod[p].n |-> [src |-> p, n |-> i]]
Written == SelectSeq(recvd, LAMBDA e : e.wrote)

\* C4, as stated: every record a producer sent is written to the output
\* sink exactly once; here for the records whose Fprintf is over.
C4_AllWritten ==
  \A k \in 1..Len(recvd) : Once(RecOf(outLines), recvd[k].rec)

\* Every record made is, once and in send order, received, in the buffer of
\* the channel or with its suspended sender; only a full buffer suspends.
C4_NothingLost ==
  /\ \A p \in Producers :
       OfProd(RecOf(recvd) \o InHand \o dataChan \o Queued, p) = Made(p)
  /\ Len(dataChan) <= BusCap
  /\ sendq # <<>> => Len(dataChan) = BusCap
  /\ \A p \in Producers :
       prod[p].pc = "suspended" <=> \E i \in 1..Len(sendq) : sendq[i].p = p
  /\ RecOf(outLines) = RecOf(Written)

\* C4, amended: a send on the full bus suspends and nothing is dropped or
\* overwritten; the receive that frees capacity completes the oldest
\* suspended send; every record sent is received at most once, in its
\* producer's send order, and is at the sink exactly once if its write
\* succeeded and never if it failed.
C4_Backpressure ==
  /\ []C4_NothingLost
  /\ [][(sendq # <<>> /\ dataChan' # dataChan)
          => /\ dataChan' = Append(Tail(dataChan), Head(sendq).r)
             /\ sendq' = Tail(sendq)
             /\ prod'[Head(sendq).p].pc = "run"]_vars

\* The bus is full and a producer is suspended in its send.
C4_Witness ==
  /\ Len(dataChan) = BusCap
  /\ sendq # <<>>
  /\ \E p \in Producers : prod[p].pc = "suspended"

\* C5: after a surfacer's Write has panicked, the dispatcher is still there
\* to deliver the record to the other surfacers and to process the next.
C5_PanicIsolated == panicked # {} => alive

\* C6, as stated: the dispatcher is never held inside the Write of a
\* surfacer that blocks; it goes on with the other surfacers and records.
C6_NoLockStep == stuckIn # {} => dpc \in {"recv", "print", "fanout"}

\* C6, amended: once a surfacer's Write blocks forever the dispatcher waits
\* in it: no further line reaches the sink, no further Write is called on
\* any surfacer and no further record is received; the surfacers after the
\* blocked one miss the record in hand.
C6_LockStep ==
  /\ [](stuckIn # {} =>
          /\ dpc = "inWrite"
          /\ \A s \in Registered :
               IndexOf(s) > cur => Len(calls[s]) = Len(recvd) - 1)
  /\ [][stuckIn # {} => UNCHANGED <<outLines, calls, recvd, em, id, cur>>]_vars

\* The first of two surfacers is blocked in Write while records wait.
C6_Witness ==
  /\ alive
  /\ Len(pr.surfacers) >= 2
  /\ stuckIn = {pr.surfacers[1]}
  /\ Len(dataChan) = BusCap
  /\ calls[pr.surfacers[2]] = <<>>

NothingStarted ==
  /\ spc = "idle"
  /\ dpc = "none"
  /\ \A t \in Tasks : started[t] = 0
  /\ \A p \in Producers : prod[p].pc = "off"

C8_SinkFailureLogged == sinkFails > 0 => glogged # {}

StartLaunch == StartSysvars \/ RunServers \/ StartRtcReporter \/ StartProbes

\* C9: Start starts no probe twice, every probe it starts is handed
\* dataChan, its launching steps wait for nothing, and when it reaches
\* `select {}` every probe of pr.Probes has been started exactly once.
C9_ProbesStarted ==
  /\ \A p \in ProbeNames :
       /\ started[p] <= 1
       /\ started[p] = 1 => (p \in pr.Probes /\ chanOf[p] = "dataChan")
  /\ (alive /\ spc \in {"sysvars", "servers", "rtc", "probes"})
       => ENABLED StartLaunch
  /\ spc \notin {"idle", "sysvars", "servers", "rtc", "probes"}
       => \A p \in pr.Probes : started[p] = 1

\* Start is at `select {}` with every probe running.
C9_Witness ==
  /\ alive
  /\ spc = "select"
  /\ pr.Probes = ProbeNames
  /\ \A p \in ProbeNames : started[p] = 1 /\ prod[p].pc = "run"

\* C10: while the process lives, from the call of Start on the caller is
\* inside Start and there is exactly one dispatcher, in its loop, the
\* context cancelled or not.
C10_NeverReturns ==
  (alive /\ spc # "idle") =>
    /\ spc \in {"sysvars", "servers", "rtc", "probes", "select"}
    /\ started["dispatcher"] = 1
    /\ dpc \in {"seed", "recv", "print", "fanout", "inWrite"}

\* The context is cancelled, Start is at `select {}` and the dispatcher has
\* taken a record and is back at the receive.
C10_Witness ==
  /\ alive
  /\ ctxDone
  /\ spc = "select"
  /\ dpc = "recv"
  /\ Len(recvd) >= 1

\* Nothing of the running Prober exists: no task, no channel handed to a
\* producer, no record made, received, written or fanned out.
Idle ==
  /\ NothingStarted
  /\ \A p \in Producers : chanOf[p] = "nil" /\ prod[p].n = 0
  /\ dataChan = <<>> /\ sendq = <<>>
  /\ em = NoRecord /\ recvd = <<>> /\ outLines = <<>>
  /\ \A s \in SurfacerIds : calls[s] = <<>>

\* C11: up to and at the successful return of InitFromConfig the Prober is
\* idle; the dispatcher, the producers, the channel and every record exist
\* only once main is inside Start, which it enters after that return.
C11_IdleAfterInit ==
  /\ [](ipc # "inStart" => Idle)
  /\ [][(Idle /\ ~Idle') => (ipc = "main" /\ ret = "ok" /\ ipc' = "inStart")]_vars

\* InitFromConfig has returned the Prober of a configuration with probes,
\* surfacers, an output file and a reporter, and Start is not yet called.
C11_Witness ==
  /\ ipc = "main" /\ ret = "ok" /\ alive
  /\ pr.Probes = ProbeNames
  /\ Len(pr.surfacers) = NumSurfacers
  /\ pr.outf = "file" /\ pr.rtcReporter
  /\ Idle

\* The line Fprintf makes of a received record.
LineOf(e) == [id |-> e.id, rec |-> e.rec]

\* C12: the lines at the output sink are, in the order the dispatcher
\* received them, the lines of the records whose write succeeded, one line
\* for each; the sink changes only by the one dispatcher, at its Fprintf,
\* appending the whole line of the record in hand after the lines before.
C12_SinkOrder ==
  /\ [](outLines = [i \in 1..Len(Written) |-> LineOf(Written[i])])
  /\ [][outLines' # outLines =>
          /\ dpc = "print" /\ started["dispatcher"] = 1
          /\ outLines' = Append(outLines, [id |-> id, rec |-> em])]_vars

\* Lines of two producers at the sink while a third record waits in the
\* channel.
C12_Witness ==
  /\ Len(outLines) >= 2
  /\ outLines[1].rec.src # outLines[2].rec.src
  /\ dataChan # <<>>

\* C13: pr.surfacers holds the surfacers in the order of their
\* specifications in the configuration (surfacer k is the one built from
\* the k-th); every Write is called on the surfacer the range loop is at,
\* with the record in hand, and of two registered surfacers the one
\* declared first has been called with every record the other has been
\* called with, and with at most one more.
C13_RegistrationOrder ==
  /\ [](/\ \A j \in 1..Len(pr.surfacers) : pr.surfacers[j] = j
        /\ \A i, j \in 1..Len(pr.surfacers) :
             i < j => /\ Len(calls[j]) <= Len(calls[i])
                      /\ Len(calls[i]) <= Len(calls[j]) + 1
                      /\ SubSeq(calls[i], 1, Len(calls[j])) = calls[j])
  /\ [][calls' # calls =>
          /\ dpc = "fanout"
          /\ calls' = [calls EXCEPT ![pr.surfacers[cur]] = Append(@, em)]
          /\ \A j \in 1..(cur - 1) :
               Len(calls[pr.surfacers[j]]) = Len(calls'[pr.surfacers[cur]])]_vars

\* Both surfacers are registered and the first has been called with a
\* record the second has not been called with yet.
C13_Witness ==
  /\ Len(pr.surfacers) = NumSurfacers
  /\ dpc = "fanout" /\ cur = 2
  /\ Len(calls[1]) = 2 /\ Len(calls[2]) = 1

\* C14: there is one dispatcher; a Write is entered only by its fan-out
\* step, on the surfacer the range loop is at, and only while no Write that
\* was entered before is still in progress; a Write in progress keeps the
\* dispatcher inside it, whatever the producers send meanwhile.
C14_NoConcurrentWrite ==
  /\ [](/\ started["dispatcher"] <= 1
        /\ stuckIn # {} => (dpc = "inWrite" /\ stuckIn = {pr.surfacers[cur]}))
  /\ [][\A s \in SurfacerIds :
          calls'[s] # calls[s] =>
            /\ dpc = "fanout" /\ s = pr.surfacers[cur]
            /\ stuckIn = {}
            /\ Len(calls'[s]) = Len(calls[s]) + 1]_vars

\* A Write is in progress on the second surfacer while two producers have
\* records waiting in the channel.
C14_Witness ==
  /\ alive
  /\ dpc = "inWrite" /\ cur = 2 /\ stuckIn = {pr.surfacers[2]}
  /\ \E i, j \in 1..Len(dataChan) : dataChan[i].src # dataChan[j].src

\* The steps of main and InitFromConfig, each with the steps it is left for.
StepOrder ==
  {<<"newLogger", "sysvarsInit">>, <<"sysvarsInit", "parse">>,
   <<"parse", "output">>, <<"output", "probes">>, <<"probes", "surfacers">>,
   <<"surfacers", "rtc">>, <<"rtc", "returnOk">>, <<"returnOk", "main">>,
   <<"newLogger", "returnErr">>, <<"parse", "returnErr">>,
   <<"output", "returnErr">>, <<"surfacers", "returnErr">>,
   <<"rtc", "returnErr">>, <<"probes", "aborted">>, <<"returnErr", "main">>,
   <<"main", "exited">>, <<"main", "inStart">>}

ParsedOk == cfg.loggerOk /\ cfg.parseOk
OutputOk == ParsedOk /\ (cfg.outputFile => cfg.createOk)
ProbesOk == OutputOk /\ \A p \in ProbeNames : cfg.probeOk[p]

C16_BoundedBus ==
  /\ [](/\ Len(dataChan) <= BusCap
        /\ dpc \in {"print", "fanout", "inWrite"} =>
             (em.src \in Producers /\ em.n \in 1..prod[em.src].n))
  /\ [][dataChan' # dataChan =>
          \/ /\ Len(dataChan) < BusCap /\ dpc' = dpc /\ em' = em
             /\ Len(dataChan') = Len(dataChan) + 1
             /\ SubSeq(dataChan', 1, Len(dataChan)) = dataChan
          \/ /\ dpc = "recv" /\ dpc' = "print" /\ em' = Head(dataChan)
             /\ Len(dataChan') <= Len(dataChan)
             /\ SubSeq(dataChan', 1, Len(dataChan) - 1) = Tail(dataChan)]_vars

\* The dispatcher has received a record and the channel is again at
\* capacity.
C16_Witness ==
  /\ alive /\ dpc = "recv"
  /\ Len(recvd) >= 1
  /\ Len(dataChan) = BusCap

\* C17: with the context of Start cancelled the dispatcher goes on as
\* before: at the receive it takes the record the channel holds, it prints
\* the record it has taken and calls Write on the surfacer it is at; and
\* when it is back at the receive every record received is with every
\* surfacer and the lines at the sink are those of the records written.
C17_CtxIgnored ==
  (alive /\ ctxDone) =>
    /\ (dpc = "recv" /\ dataChan # <<>>) => ENABLED DispatcherReceive
    /\ dpc = "print" => ENABLED DispatcherPrint
    /\ dpc = "fanout" => ENABLED DispatcherWrite
    /\ dpc = "recv" =>
         /\ \A j \in 1..Len(pr.surfacers) :
              calls[pr.surfacers[j]] = RecOf(recvd)
         /\ Len(outLines) = Len(Written)
         /\ id = IF recvd = <<>> THEN id ELSE recvd[Len(recvd)].id + 1

\* The context is cancelled, a record has gone to the sink and to both
\* surfacers, and the next one waits in the channel.
C17_Witness ==
  /\ alive /\ ctxDone
  /\ dpc = "recv" /\ dataChan # <<>>
  /\ Len(outLines) >= 1
  /\ Len(pr.surfacers) = NumSurfacers
  /\ \A s \in SurfacerIds : Len(calls[s]) >= 1

\* The positions of the dispatcher, each with the positions that follow it.
DispatcherCycle ==
  {<<"none", "seed">>, <<"seed", "recv">>, <<"recv", "print">>,
   <<"print", "fanout">>, <<"print", "recv">>, <<"fanout", "recv">>,
   <<"fanout", "inWrite">>}

\* C18: the dispatcher goes from the receive to the Fprintf, from there
\* through the Write of the surfacers and only then back to the receive;
\* a Write is called with the record in hand, whose Fprintf is over, and
\* when a record is received no Write is in progress and every registered
\* surfacer has been called with every record received before.
C18_OneAtATime ==
  /\ [][dpc' # dpc => <<dpc, dpc'>> \in DispatcherCycle]_vars
  /\ [][calls' # calls =>
          /\ recvd # <<>> /\ recvd' = recvd
          /\ em = recvd[Len(recvd)].rec
          /\ \A s \in SurfacerIds :
               calls'[s] # calls[s] => calls'[s] = RecOf(recvd)]_vars
  /\ [][em' # em =>
          /\ stuckIn = {}
          /\ Len(outLines) + sinkFails = Len(recvd)
          /\ \A j \in 1..Len(pr.surfacers) :
               calls[pr.surfacers[j]] = RecOf(recvd)
          /\ calls' = calls /\ outLines' = outLines]_vars

\* The second record is received after the first went to the sink and to
\* both surfacers.
C18_Witness ==
  /\ alive /\ dpc = "print"
  /\ Len(recvd) = 1 /\ Len(outLines) = 1
  /\ Len(pr.surfacers) = NumSurfacers
  /\ \A s \in SurfacerIds : calls[s] = <<recvd[1].rec>>
  /\ em # recvd[1].rec

\* C19: once the dispatcher is seeded, the id it holds less the number of
\* records it has printed is the seed, one of the clock's values; the k-th
\* record received (from 1) was printed with the id seed + k - 1, whether
\* the writes before it succeeded or not, and the lines at the sink carry
\* the ids of the records whose write succeeded.
C19_IdCountsReceived ==
  dpc \notin {"none", "seed"} =>
    LET seed == id - Len(recvd) IN
    /\ seed \in Seeds
    /\ \A k \in 1..Len(recvd) : recvd[k].id = seed + (k - 1)
    /\ Len(outLines) = Len(Written)
    /\ \A i \in 1..Len(outLines) : outLines[i].id = Written[i].id

\* The write of the first record failed and the second record is at the
\* sink with the id seed + 1.
C19_Witness ==
  /\ Len(recvd) >= 2
  /\ ~recvd[1].wrote /\ recvd[2].wrote
  /\ outLines # <<>>
  /\ outLines[1].rec = recvd[2].rec
  /\ outLines[1].id = recvd[1].id + 1

\* a is b, or b without its last element.
LagsByOne(a, b) ==
  /\ Len(a) <= Len(b) /\ Len(b) <= Len(a) + 1
  /\ a = SubSeq(b, 1, Len(a))

WritesReturn == stuckIn = {} /\ panicked = {}

\* C20, as stated: while every Write returns, the records every registered
\* surfacer has been called with are a prefix of the records of the lines
\* at the output sink, at most one record behind.
C20_PrefixOfSink ==
  WritesReturn =>
    \A j \in 1..Len(pr.surfacers) :
      LagsByOne(calls[pr.surfacers[j]], RecOf(outLines))

\* C20, amended: while every Write returns, the records every registered
\* surfacer has been called with are a prefix of the records the dispatcher
\* has put through its write to the sink, failed writes included, at most
\* one record behind; they are such a prefix of the records at the sink as
\* long as no write to the sink has failed; and of two surfacers the
\* records of one are a prefix of the records of the other.
C20_PrefixOfPrinted ==
  WritesReturn =>
    /\ \A j \in 1..Len(pr.surfacers) :
         /\ LagsByOne(calls[pr.surfacers[j]], RecOf(recvd))
         /\ sinkFails = 0 =>
              LagsByOne(calls[pr.surfacers[j]], RecOf(outLines))
    /\ \A i, j \in 1..Len(pr.surfacers) :
         \/ LagsByOne(calls[pr.surfacers[i]], calls[pr.surfacers[j]])
         \/ LagsByOne(calls[pr.surfacers[j]], calls[pr.surfacers[i]])

\* Records of two producers are at the sink; the first surfacer has them
\* all and the second is one behind.
C20_Witness ==
  /\ alive /\ WritesReturn /\ sinkFails = 0
  /\ Len(pr.surfacers) = NumSurfacers
  /\ Len(outLines) >= 2
  /\ outLines[1].rec.src # outLines[2].rec.src
  /\ calls[pr.surfacers[1]] = RecOf(outLines)
  /\ Len(calls[pr.surfacers[2]]) = Len(outLines) - 1
====
